---- MODULE Spec2Model ----
(***************************************************************************)
(* kernel-rs: box blur / sharpen of an RGB image by a 2D convolution whose *)
(* rows are processed in parallel (src/src/main.rs).                       *)
(*                                                                         *)
(* f32 values are held as their IEEE-754 binary32 bit pattern, signed:     *)
(*     sign * (biased_exponent * 2^23 + fraction)                          *)
(* so every +, * and / below rounds to nearest-even exactly as the         *)
(* hardware does.  Zero is the single value 0 (the sign of a zero never    *)
(* reaches the u8 output), and the inputs of the model keep every value    *)
(* in the normal range (no subnormal, infinity or NaN arises).             *)
(***************************************************************************)
EXTENDS Integers, Sequences, FiniteSets, TLC

\* ---------------------------------------------------------------- bounds
MaxWidth == 2
MaxHeight == 2
MaxThreads == 2
MaxBlur == 5

\* ------------------------------------------------------------ f32 values
MantBits == 2^23
ExpBias == 127 + 23

FSign(f) == IF f < 0 THEN 1 ELSE 0
FAbs(f) == IF f < 0 THEN -f ELSE f
\* the 24-bit significand (hidden bit included) and the exponent of its unit
FMant(f) == IF f = 0 THEN 0 ELSE (FAbs(f) % MantBits) + MantBits
FExp(f) == (FAbs(f) \div MantBits) - ExpBias

\* the f32 of value (-1)^s * m * 2^e, for m in [2^23, 2^24)
Pack(s, m, e) ==
    LET b == (e + ExpBias) * MantBits + (m - MantBits)
    IN  IF s = 1 THEN -b ELSE b

\* round-to-nearest-even of (q + r/unit) * 2^e, 0 <= r < unit, q in [2^23, 2^24)
RoundPack(s, q, r, unit, e) ==
    LET up == (2 * r > unit) \/ (2 * r = unit /\ q % 2 = 1)
        q1 == IF up THEN q + 1 ELSE q
    IN  IF q1 = 2 * MantBits THEN Pack(s, MantBits, e + 1) ELSE Pack(s, q1, e)

RECURSIVE NormUp(_, _)
\* <<m, e>> shifted left until m is in [2^23, 2^24)
NormUp(m, e) ==
    IF m >= MantBits THEN <<m, e>>
    ELSE IF m < 2^8 THEN NormUp(2^16 * m, e - 16)
    ELSE IF m < 2^16 THEN NormUp(2^8 * m, e - 8)
    ELSE IF m < 2^20 THEN NormUp(2^4 * m, e - 4)
    ELSE NormUp(2 * m, e - 1)

RECURSIVE ExcessBits(_, _)
\* the least d with a \div 2^d < 2^24
ExcessBits(a, d) == IF a < 2 * MantBits THEN d ELSE ExcessBits(a \div 2, d + 1)

\* `n as f32` for an integer n (u8 channel, usize size * size)
FromInt(n) ==
    IF n = 0 THEN 0
    ELSE LET a == IF n < 0 THEN -n ELSE n
             s == IF n < 0 THEN 1 ELSE 0
         IN  IF a < 2 * MantBits
             THEN LET ne == NormUp(a, 0) IN Pack(s, ne[1], ne[2])
             ELSE LET d == ExcessBits(a, 0)
                  IN  RoundPack(s, a \div 2^d, a % 2^d, 2^d, d)

\* f32 * f32: the 48-bit product of the significands in 12-bit limbs
FMul(a, b) ==
    IF a = 0 \/ b = 0 THEN 0
    ELSE LET s == (FSign(a) + FSign(b)) % 2
             ma == FMant(a)
             mb == FMant(b)
             a1 == ma \div 4096
             a0 == ma % 4096
             b1 == mb \div 4096
             b0 == mb % 4096
             mid == a1 * b0 + a0 * b1
             low == (mid % 4096) * 4096 + a0 * b0
             hi == a1 * b1 + (mid \div 4096) + (low \div (2 * MantBits))
             lo == low % (2 * MantBits)
             e == FExp(a) + FExp(b)
         IN  IF hi >= MantBits
             THEN RoundPack(s, hi, lo, 2 * MantBits, e + 24)
             ELSE RoundPack(s, 2 * hi + (lo \div MantBits), lo % MantBits,
                            MantBits, e + 23)

\* m \div 2^d, the bits shifted out or-ed into the last bit (sticky)
ShiftSticky(m, d) ==
    IF d = 0 THEN m
    ELSE IF d >= 27 THEN 1
    ELSE LET p == 2^d
             q == m \div p
         IN  IF m % p = 0 \/ q % 2 = 1 THEN q ELSE q + 1

RECURSIVE NormGuard(_, _)
\* r carries 3 guard bits: shift it into [2^26, 2^27)
NormGuard(r, e) ==
    IF r >= 2^27 THEN NormGuard(ShiftSticky(r, 1), e + 1)
    ELSE IF r < 2^26 THEN NormGuard(2 * r, e - 1)
    ELSE <<r, e>>

\* f32 + f32
FAdd(a, b) ==
    IF a = 0 THEN b
    ELSE IF b = 0 THEN a
    ELSE LET swap == FAbs(a) < FAbs(b)
             x == IF swap THEN b ELSE a
             y == IF swap THEN a ELSE b
             d == FExp(x) - FExp(y)
             mx == 8 * FMant(x)
             my == ShiftSticky(8 * FMant(y), d)
             r == IF FSign(x) = FSign(y) THEN mx + my ELSE mx - my
         IN  IF r = 0 THEN 0
             ELSE LET n == NormGuard(r, FExp(x) - 3)
                  IN  RoundPack(FSign(x), n[1] \div 8, n[1] % 8, 8, n[2] + 3)

RECURSIVE DivBits(_, _, _, _)
\* n more quotient bits of r / m by long division: <<quotient, remainder>>
DivBits(q, r, m, n) ==
    IF n = 0 THEN <<q, r>>
    ELSE IF 2 * r >= m THEN DivBits(2 * q + 1, 2 * r - m, m, n - 1)
    ELSE DivBits(2 * q, 2 * r, m, n - 1)

\* f32 / f32, b nonzero
FDiv(a, b) ==
    IF a = 0 THEN 0
    ELSE LET s == (FSign(a) + FSign(b)) % 2
             ma == FMant(a)
             mb == FMant(b)
             e == FExp(a) - FExp(b)
         IN  IF ma >= mb
             THEN LET qr == DivBits(1, ma - mb, mb, 23)
                  IN  RoundPack(s, qr[1], qr[2], mb, e - 23)
             ELSE LET qr == DivBits(0, ma, mb, 24)
                  IN  RoundPack(s, qr[1], qr[2], mb, e - 24)

\* f32::round: to the nearest integer, halves away from zero.  The result is
\* integral, so it is held as an integer (magnitudes of 2^24 and more as 2^24).
FRound(f) ==
    IF f = 0 THEN 0
    ELSE LET m == FMant(f)
             e == FExp(f)
             mag == IF e > 0 THEN 2 * MantBits
                    ELSE IF e < -24 THEN 0
                    ELSE LET p == 2^(-e)
                         IN  (m \div p) + (IF 2 * (m % p) >= p THEN 1 ELSE 0)
         IN  IF f < 0 THEN -mag ELSE mag

\* --------------------------------------------------------------- kernels
\* vec![vec![1.0 / (size * size) as f32; size]; size]; kernel[ky][kx] is
\* kernel[ky + 1][kx + 1] here (sequences count from 1)
generate_box_blur_kernel(size) ==
    LET value == FDiv(FromInt(1), FromInt(size * size))
    IN  [ky \in 1..size |-> [kx \in 1..size |-> value]]

generate_sharpen_kernel ==
    << <<FromInt(0), FromInt(-1), FromInt(0)>>,
       <<FromInt(-1), FromInt(5), FromInt(-1)>>,
       <<FromInt(0), FromInt(-1), FromInt(0)>> >>

\* further kernels a caller of apply_convolution may pass
IdentityKernel == << <<FromInt(1)>> >>
HalfKernel == << <<FDiv(FromInt(1), FromInt(2))>> >>
AllTenKernel == [ky \in 1..3 |-> [kx \in 1..3 |-> FromInt(10)]]
\* takes the pixel to the right: the one weight is off both diagonals
RightKernel ==
    << <<FromInt(0), FromInt(0), FromInt(0)>>,
       <<FromInt(0), FromInt(0), FromInt(1)>>,
       <<FromInt(0), FromInt(0), FromInt(0)>> >>

OddSizes == {n \in 1..MaxBlur : n % 2 = 1}

Kernels ==
    {generate_box_blur_kernel(n) : n \in OddSizes}
        \cup {generate_sharpen_kernel, IdentityKernel, HalfKernel,
              AllTenKernel, RightKernel}

\* ---------------------------------------------------------------- images
Black == <<0, 0, 0>>
White == <<255, 255, 255>>
Teal == <<10, 200, 77>>
Palette == {Black, White, Teal}
\* <<colour of one pixel, colour of the rest>>
SpotColours == {<<White, Black>>, <<Teal, White>>}

Coords(w, h) == (0..(w - 1)) \X (0..(h - 1))

\* RgbImage: dimensions and one Rgb<u8> per coordinate
Uniform(w, h, c) ==
    [width |-> w, height |-> h, data |-> [p \in Coords(w, h) |-> c]]
Spot(w, h, q, fg, bg) ==
    [width |-> w, height |-> h,
     data |-> [p \in Coords(w, h) |-> IF p = q THEN fg ELSE bg]]

Images(w, h) ==
    {Uniform(w, h, c) : c \in Palette}
        \cup {Spot(w, h, q, fb[1], fb[2]) : q \in Coords(w, h), fb \in SpotColours}

NoImage == [width |-> 0, height |-> 0, data |-> <<>>]

\* ------------------------------------------------------ apply_convolution
\* mutant of HalfK: the window is not centred on the pixel
HalfKUncentred(kernel_size) == 0

\* let half_k = kernel_size as i32 / 2
HalfK(kernel_size) == kernel_size \div 2

\* i32::clamp(v, lo, hi); the caller checks lo <= hi (clamp asserts it)
ClampCoord(v, lo, hi) == IF v < lo THEN lo ELSE IF v > hi THEN hi ELSE v

\* mutant of SampleSource: an in-place convolution, which samples a stored
\* result where the output holds one
SampleInPlace(img, out) ==
    [img EXCEPT !.data =
        [p \in DOMAIN img.data |->
            IF p \in DOMAIN out.data /\ out.data[p] # <<0, 0, 0>>
            THEN out.data[p] ELSE img.data[p]]]

\* the buffer the neighbourhood is sampled from: the borrowed input image
SampleSource(img, out) == img

\* mutant of AllocDims: width and height exchanged
AllocSwapped(width, height) == <<height, width>>

\* ImageBuffer::new(width, height): the dimensions of the output
AllocDims(width, height) == <<width, height>>

\* mutant of NumRows: a first row is yielded before the height is looked at
NumRowsAtLeastOne(width, height) ==
    IF width * 3 = 0 THEN 0 ELSE IF height = 0 THEN 1 ELSE height

\* the rows enumerate_rows_mut yields: height rows of width pixels, and none
\* when a row holds no subpixel
NumRows(width, height) == IF width * 3 = 0 THEN 0 ELSE height

\* mutant of NextRow: the iterator is not advanced
NextRowStuck(y) == y

\* the row the shared row iterator yields after row y
NextRow(y) == y + 1

\* mutant of ClampU8: the rounded sum is truncated to 8 bits
WrapU8(r) == r % 256

\* `sum.round().clamp(0.0, 255.0) as u8` on the rounded sum
ClampU8(r) == IF r < 0 THEN 0 ELSE IF r > 255 THEN 255 ELSE r

ToU8(sum) == ClampU8(FRound(sum))

\* One pass of the body of the kx loop (lines 38-44) for kernel cell
\* (kx, ky).  sums is <<sum_r, sum_g, sum_b, panicked>>: the pass panics when
\* clamp's bounds are reversed (width or height 0) or get_pixel is handed a
\* coordinate outside the image.
Accumulate(src, kernel, half_k, x, y, kx, ky, sums) ==
    LET nx == ClampCoord(x + kx - half_k, 0, src.width - 1)
        ny == ClampCoord(y + ky - half_k, 0, src.height - 1)
        w == kernel[ky + 1][kx + 1]
    IN  IF sums[4] \/ src.width - 1 < 0 \/ src.height - 1 < 0
           \/ <<nx, ny>> \notin DOMAIN src.data
        THEN <<sums[1], sums[2], sums[3], TRUE>>
        ELSE LET neighbor_pixel == src.data[<<nx, ny>>]
             IN  <<FAdd(sums[1], FMul(FromInt(neighbor_pixel[1]), w)),
                   FAdd(sums[2], FMul(FromInt(neighbor_pixel[2]), w)),
                   FAdd(sums[3], FMul(FromInt(neighbor_pixel[3]), w)),
                   FALSE>>

RECURSIVE KernelLoop(_, _, _, _, _, _, _, _, _)
\* The ky/kx loops (lines 36-46) over the cells from..to-1 in row-major
\* order, cell i being (kx, ky) = (i % k, i \div k).  The range is halved
\* instead of walked so that a k*k of several hundred thousand cells does
\* not nest as deep; the passes run in the same order, each on the sums the
\* previous one left.
KernelLoop(src, kernel, kernel_size, half_k, x, y, from, to, sums) ==
    IF sums = sums /\ from >= to THEN sums
    ELSE IF to - from = 1
    THEN Accumulate(src, kernel, half_k, x, y,
                    from % kernel_size, from \div kernel_size, sums)
    ELSE LET mid == from + ((to - from) \div 2)
         IN  KernelLoop(src, kernel, kernel_size, half_k, x, y, mid, to,
                 KernelLoop(src, kernel, kernel_size, half_k, x, y, from, mid, sums))

\* the body of the pixel loop (lines 31-51): <<r, g, b, panicked>>, with
\* kernel_size and half_k as lines 19-20 set them
ConvolvePixel(src, kernel, x, y) ==
    LET kernel_size == Len(kernel)
        half_k == HalfK(kernel_size)
        sums == KernelLoop(src, kernel, kernel_size, half_k, x, y,
                           0, kernel_size * kernel_size, <<0, 0, 0, FALSE>>)
    IN  <<ToU8(sums[1]), ToU8(sums[2]), ToU8(sums[3]), sums[4]>>

\* ------------------------------------------------- strings, paths, parsing
\* A String is the sequence of its characters.
Whitespace == {" ", "\n", "\t", "\r"}
DigitChars == <<"0", "1", "2", "3", "4", "5", "6", "7", "8", "9">>
Digits == {DigitChars[i] : i \in 1..10}
DigitValue(c) == (CHOOSE i \in 1..10 : DigitChars[i] = c) - 1

RECURSIVE TrimStart(_)
TrimStart(s) ==
    IF s # <<>> /\ Head(s) \in Whitespace THEN TrimStart(Tail(s)) ELSE s
RECURSIVE TrimEnd(_)
TrimEnd(s) ==
    IF s # <<>> /\ s[Len(s)] \in Whitespace
    THEN TrimEnd(SubSeq(s, 1, Len(s) - 1))
    ELSE s
\* str::trim
Trim(s) == TrimEnd(TrimStart(s))

RECURSIVE DecimalValue(_)
DecimalValue(s) ==
    IF s = <<>> THEN 0
    ELSE 10 * DecimalValue(SubSeq(s, 1, Len(s) - 1)) + DigitValue(s[Len(s)])

\* str::parse::<usize>: one optional '+', then one digit or more.  The lines
\* read are too short to overflow a usize.
ParseUsize(s) ==
    LET digits == IF s # <<>> /\ Head(s) = "+" THEN Tail(s) ELSE s
    IN  IF digits = <<>> \/ \E i \in 1..Len(digits) : digits[i] \notin Digits
        THEN [ok |-> FALSE, value |-> 0]
        ELSE [ok |-> TRUE, value |-> DecimalValue(digits)]

RECURSIVE FormatUsize(_)
\* the Display of a usize, as format!'s {} writes it
FormatUsize(n) ==
    IF n < 10 THEN <<DigitChars[n + 1]>>
    ELSE FormatUsize(n \div 10) \o <<DigitChars[(n % 10) + 1]>>

\* the last index of character c in s, 0 when it has none
LastIndexOf(s, c) ==
    IF \E i \in 1..Len(s) : s[i] = c
    THEN CHOOSE i \in 1..Len(s) : s[i] = c /\ \A j \in (i + 1)..Len(s) : s[j] # c
    ELSE 0

\* Path::file_name of a path that ends in a file name
FileName(path) == SubSeq(path, LastIndexOf(path, "/") + 1, Len(path))
\* Path::extension: what follows the last dot, none (<<>>, has |-> FALSE) when
\* the name has no dot or only a leading one
Extension(path) ==
    LET name == FileName(path)
        dot == LastIndexOf(name, ".")
    IN  IF dot <= 1 THEN [has |-> FALSE, ext |-> <<>>]
        ELSE [has |-> TRUE, ext |-> SubSeq(name, dot + 1, Len(name))]
\* Path::file_stem
FileStem(path) ==
    LET name == FileName(path)
        dot == LastIndexOf(name, ".")
    IN  IF dot <= 1 THEN name ELSE SubSeq(name, 1, dot - 1)

ImagesDir == <<"i", "m", "a", "g", "e", "s", "/">>
BlurredInfix == <<"_", "b", "l", "u", "r", "r", "e", "d", "_">>
SharpenedSuffix ==
    <<"_", "s", "h", "a", "r", "p", "e", "n", "e", "d", ".", "j", "p", "g">>
JpgSuffix == <<".", "j", "p", "g">>
Jpg == <<"j", "p", "g">>
Jpeg == <<"j", "p", "e", "g">>

\* format!("images/{}_blurred_{}.jpg", stem, blur_strength)
BlurredPath(path, strength) ==
    ImagesDir \o FileStem(path) \o BlurredInfix \o FormatUsize(strength)
        \o JpgSuffix
\* format!("images/{}_sharpened.jpg", stem)
SharpenedPath(path) == ImagesDir \o FileStem(path) \o SharpenedSuffix

\* the entries images/ may hold: a name, and whether it is a regular file
DirEntries ==
    {[name |-> <<"a", ".", "j", "p", "g">>, is_file |-> TRUE],
     [name |-> <<"b", ".", "j", "p", "e", "g">>, is_file |-> TRUE],
     [name |-> <<"c", ".", "p", "n", "g">>, is_file |-> TRUE],
     [name |-> <<"d", ".", "j", "p", "g">>, is_file |-> FALSE],
     [name |-> <<".", "j", "p", "g">>, is_file |-> TRUE]}
MaxEntries == 2
\* read_dir yields the entries in an order of the file system's choosing
Listings ==
    {l \in UNION {[1..n -> DirEntries] : n \in 0..MaxEntries} :
        \A i, j \in 1..Len(l) : i # j => l[i] # l[j]}

\* the closure of find_map (lines 121-126) on one entry
IsJpegFile(entry) ==
    LET path == ImagesDir \o entry.name
        e == Extension(path)
    IN  entry.is_file /\ e.has /\ e.ext \in {Jpg, Jpeg}

NoPath == <<>>
\* find_map over the listing: the path of the first match, NoPath when none
FindFirst(entries) ==
    IF \E i \in 1..Len(entries) : IsJpegFile(entries[i])
    THEN LET i == CHOOSE k \in 1..Len(entries) :
                      /\ IsJpegFile(entries[k])
                      /\ \A j \in 1..(k - 1) : ~IsJpegFile(entries[j])
         IN  ImagesDir \o entries[i].name
    ELSE NoPath

\* what read_line may append: a line with its newline, a last line without
\* one, or nothing at end of input
ChoiceLines ==
    {<<"1", "\n">>, <<"2", "\n">>, <<" ", "2", " ", "\n">>, <<"1">>,
     <<"3", "\n">>, <<"1", "2", "\n">>, <<"\n">>, <<>>}
StrengthLines ==
    {FormatUsize(n) \o <<"\n">> : n \in 0..MaxBlur}
        \cup {<<"a", "b", "c", "\n">>, <<"\n">>, <<>>, <<"-", "3", "\n">>,
              <<"+", "2", "\n">>, <<" ", "3", " ", "\n">>, <<"0", "3", "\n">>,
              <<"3", ".", "5", "\n">>, <<"+", "\n">>}

\* mutant of ChoiceBranch: the last branch does not return
ChoiceBranchFallthrough(c) ==
    IF c = <<"1">> THEN "blur" ELSE "sharpen"

\* the branch main takes on the trimmed choice (lines 152, 171, 177)
ChoiceBranch(c) ==
    IF c = <<"1">> THEN "blur" ELSE IF c = <<"2">> THEN "sharpen" ELSE "invalid"

\* line 161: parse().unwrap_or(5)
DefaultStrength == 5
ParsedStrength(line) ==
    LET r == ParseUsize(Trim(line))
    IN  IF r.ok THEN r.value ELSE DefaultStrength

\* mutant of MainForceOdd: the strength is left as typed
MainKeepStrength(n) == n

\* line 164 (main) and line 61 (blur_image): force the strength odd
MainForceOdd(n) == IF n % 2 = 0 THEN n + 1 ELSE n
BlurForceOdd(n) == IF n % 2 = 0 THEN n + 1 ELSE n

Msg(text, arg) == [text |-> text, arg |-> arg]
ErrNoFolder ==
    Msg("Error: 'images/' folder does not exist. Please create it and add a .jpg file.", <<>>)
ErrNoFiles ==
    Msg("Error: No .jpg files found in 'images/'. Please add an image and try again.", <<>>)
ErrExiting == Msg("Error: No '.jpg' found in 'images/'. Exiting.", <<>>)
ErrInvalidChoice ==
    Msg("Invalid choice! Please enter 1 for Blur or 2 for Sharpen.", <<>>)
PromptChoice == Msg("Please enter 1 for Blur or 2 for Sharpen.", <<>>)
PromptStrength == Msg("Enter blur strength (odd value, i.e., 3, 5, 7): ", <<>>)

\* what image::open(..).into_rgb8() may decode
DecodedImages ==
    {Uniform(1, 1, Teal), Spot(MaxWidth, MaxHeight, <<0, 0>>, White, Black)}

VARIABLES
    pc,            \* where the program is: "main", "choice", "strength",
                   \* "open", "call", "running", "returned", "exit", "panicked"
    dir_state,     \* images/: "missing", "unreadable" or "ok"
    dir_entries,   \* what read_dir yields, in its order
    image_path,    \* the path find_image returned (NoPath: None)
    choice,        \* the trimmed line read as the choice
    strength_line, \* the line read into the String blur_strength
    blur_strength, \* the usize blur_strength of main, blur_size of blur_image
    filter,        \* "none", "blur" or "sharpen": the function main called
    modified,      \* the output path
    console,       \* the messages printed so far
    files_written, \* the paths the codec has written
    image,         \* the input image (borrowed, never written)
    kernel,        \* the kernel
    nthreads,      \* the size of the thread pool
    output,        \* the output ImageBuffer
    rows_next,     \* the row the shared row iterator yields next
    task,          \* per worker: the row it holds (-1: none) and its next x
    handed,        \* history: how often each row was handed to a task
    nwrites,       \* history: how often each output pixel was written
    out_reads,     \* history: a task sampled the output buffer
    samples,       \* history: passes of the kx loop body started
    reordered      \* history: a row was finished before a row above it

io_vars == <<dir_state, dir_entries, image_path, choice, strength_line,
             blur_strength, filter, modified, console, files_written>>
input_vars == <<image, kernel, nthreads>>
run_vars == <<output, rows_next, task, handed, nwrites, out_reads, samples,
              reordered>>
vars == <<pc, io_vars, input_vars, run_vars>>

Threads == 1..nthreads
Idle == [row |-> -1, x |-> 0]

\* nothing convolved yet
RunInit ==
    /\ output = NoImage
    /\ rows_next = 0
    /\ task = [t \in Threads |-> Idle]
    /\ handed = <<>>
    /\ nwrites = <<>>
    /\ out_reads = FALSE
    /\ samples = 0
    /\ reordered = FALSE

\* nothing read or printed yet
IoInit ==
    /\ image_path = NoPath
    /\ choice = <<>>
    /\ strength_line = <<>>
    /\ blur_strength = 0
    /\ filter = "none"
    /\ modified = NoPath
    /\ console = <<>>
    /\ files_written = {}

\* ------------------------------------------------------ apply_convolution
\* a call of apply_convolution(img, k) on a pool of n threads
EngineInit(img, k, n) ==
    /\ pc = "call"
    /\ dir_state = "ok"
    /\ dir_entries = <<>>
    /\ IoInit
    /\ image = img
    /\ kernel = k
    /\ nthreads = n
    /\ RunInit

Init ==
    \E w \in 0..MaxWidth, h \in 0..MaxHeight :
        \E img \in Images(w, h), k \in Kernels, n \in 1..MaxThreads :
            EngineInit(img, k, n)

\* lines 18-23: read the dimensions, allocate the zeroed output
Alloc ==
    /\ pc = "call"
    /\ LET d == AllocDims(image.width, image.height)
       IN  /\ output' = Uniform(d[1], d[2], Black)
           /\ handed' = [y \in 0..(d[2] - 1) |-> 0]
           /\ nwrites' = [p \in Coords(d[1], d[2]) |-> 0]
    /\ pc' = "running"
    /\ UNCHANGED <<io_vars, input_vars, rows_next, task, out_reads, samples,
                   reordered>>

\* par_bridge: an idle worker pulls the next row from the shared iterator
\* (under its lock) and starts the closure on it
TakeRow(t) ==
    /\ pc = "running"
    /\ task[t].row = -1
    /\ rows_next < NumRows(output.width, output.height)
    /\ task' = [task EXCEPT ![t] = [row |-> rows_next, x |-> 0]]
    /\ handed' = [handed EXCEPT ![rows_next] = @ + 1]
    /\ rows_next' = NextRow(rows_next)
    /\ UNCHANGED <<pc, io_vars, input_vars, output, nwrites, out_reads,
                   samples, reordered>>

\* one pass of the pixel loop of the closure (lines 30-52): convolve, store;
\* after the last pixel of the row the closure returns.  A panic in a worker
\* is carried to the caller of for_each and ends the program.
ProcessPixel(t) ==
    /\ pc = "running"
    /\ task[t].row >= 0
    /\ task[t].x < output.width
    /\ LET x == task[t].x
           y == task[t].row
           src == SampleSource(image, output)
           last == x + 1 = output.width
       IN  \E px \in {ConvolvePixel(src, kernel, x, y)} :
           /\ out_reads' = (out_reads \/ (src # image /\ Len(kernel) > 0))
           /\ IF px[4]
              THEN /\ pc' = "panicked"
                   /\ samples' = samples + 1
                   /\ UNCHANGED <<output, nwrites, task, reordered>>
              ELSE /\ pc' = pc
                   /\ samples' = samples + Len(kernel) * Len(kernel)
                   /\ output' = [output EXCEPT
                                   !.data[<<x, y>>] = <<px[1], px[2], px[3]>>]
                   /\ nwrites' = [nwrites EXCEPT ![<<x, y>>] = @ + 1]
                   /\ task' = [task EXCEPT
                                 ![t] = IF last THEN Idle
                                        ELSE [row |-> y, x |-> x + 1]]
                   /\ reordered' =
                        (reordered
                           \/ (last /\ \E p \in DOMAIN nwrites :
                                          p[2] < y /\ nwrites[p] = 0))
    /\ UNCHANGED <<io_vars, input_vars, rows_next, handed>>

\* for_each returns once the iterator is drained and every closure is done;
\* line 55 returns the output
Join ==
    /\ pc = "running"
    /\ rows_next >= NumRows(output.width, output.height)
    /\ \A t \in Threads : task[t].row = -1
    /\ pc' = "returned"
    /\ UNCHANGED <<io_vars, input_vars, run_vars>>

Next ==
    \/ Alloc
    \/ \E t \in Threads : TakeRow(t)
    \/ \E t \in Threads : ProcessPixel(t)
    \/ Join

Spec == Init /\ [][Next]_vars

\* ------------------------------------------------------------------- main
\* the program starts: some images/ directory, some pool size
MainInit ==
    /\ pc = "main"
    /\ dir_state \in {"missing", "unreadable", "ok"}
    /\ dir_entries \in Listings
    /\ (dir_state # "ok" => dir_entries = <<>>)
    /\ IoInit
    /\ image = NoImage
    /\ kernel = <<>>
    /\ nthreads \in 1..MaxThreads
    /\ RunInit

\* find_image (lines 113-131) and lines 135-144 of main
FindImage ==
    /\ pc = "main"
    /\ LET found == IF dir_state = "ok" THEN FindFirst(dir_entries) ELSE NoPath
       IN  /\ image_path' = found
           /\ IF found # NoPath
              THEN /\ console' = Append(console, PromptChoice)
                   /\ pc' = "choice"
              ELSE /\ console' =
                        console
                          \o (IF dir_state = "missing" THEN <<ErrNoFolder>>
                              ELSE IF dir_state = "ok" THEN <<ErrNoFiles>>
                              ELSE <<>>)
                          \o <<ErrExiting>>
                   /\ pc' = "exit"
    /\ UNCHANGED <<dir_state, dir_entries, choice, strength_line,
                   blur_strength, filter, modified, files_written,
                   input_vars, run_vars>>

\* lines 146-152, 171-180: read the choice and branch on it
ReadChoice ==
    /\ pc = "choice"
    /\ \E line \in ChoiceLines :
        LET c == Trim(line)
            branch == ChoiceBranch(c)
        IN  /\ choice' = c
            /\ CASE branch = "blur" ->
                      /\ console' = Append(console, PromptStrength)
                      /\ pc' = "strength"
                      /\ UNCHANGED <<filter, modified>>
                 [] branch = "sharpen" ->
                      /\ modified' = SharpenedPath(image_path)
                      /\ console' = Append(console, Msg("Sharpening the image...", <<>>))
                      /\ filter' = "sharpen"
                      /\ pc' = "open"
                 [] OTHER ->
                      /\ console' = Append(console, ErrInvalidChoice)
                      /\ pc' = "exit"
                      /\ UNCHANGED <<filter, modified>>
    /\ UNCHANGED <<dir_state, dir_entries, image_path, strength_line,
                   blur_strength, files_written, input_vars, run_vars>>

\* lines 157-169: read the strength, name the output, call blur_image
ReadStrength ==
    /\ pc = "strength"
    /\ \E line \in StrengthLines :
        LET strength == MainForceOdd(ParsedStrength(line))
        IN  /\ strength_line' = line
            /\ blur_strength' = strength
            /\ modified' = BlurredPath(image_path, strength)
            /\ console' = Append(console,
                   Msg("Applying blur with strength {}...", FormatUsize(strength)))
    /\ filter' = "blur"
    /\ pc' = "open"
    /\ UNCHANGED <<dir_state, dir_entries, image_path, choice, files_written,
                   input_vars, run_vars>>

\* a read_line that fails: expect panics
ReadFails ==
    /\ pc \in {"choice", "strength"}
    /\ pc' = "panicked"
    /\ UNCHANGED <<io_vars, input_vars, run_vars>>

\* blur_image lines 61-69 and sharpen_image lines 95-100: decode the image,
\* build the kernel
OpenImage ==
    /\ pc = "open"
    /\ \E img \in DecodedImages :
        /\ image' = img
        /\ IF filter = "blur"
           THEN /\ blur_strength' = BlurForceOdd(blur_strength)
                /\ kernel' = generate_box_blur_kernel(BlurForceOdd(blur_strength))
           ELSE /\ kernel' = generate_sharpen_kernel
                /\ UNCHANGED blur_strength
    /\ pc' = "call"
    /\ UNCHANGED <<dir_state, dir_entries, image_path, choice, strength_line,
                   filter, modified, console, files_written, nthreads,
                   run_vars>>

\* image::open fails: expect panics
OpenFails ==
    /\ pc = "open"
    /\ pc' = "panicked"
    /\ blur_strength' = IF filter = "blur" THEN BlurForceOdd(blur_strength)
                        ELSE blur_strength
    /\ UNCHANGED <<dir_state, dir_entries, image_path, choice, strength_line,
                   filter, modified, console, files_written, input_vars,
                   run_vars>>

\* lines 75-78 / 106-109 and line 182: save the result, report, return
Save ==
    /\ pc = "returned"
    /\ files_written' = files_written \cup {modified}
    /\ console' = console
          \o <<Msg(IF filter = "blur" THEN "Blurred image saved to '{}'"
                   ELSE "Sharpened image saved to '{}'", modified),
               Msg("Processing complete. Output saved as '{}'", modified)>>
    /\ pc' = "exit"
    /\ UNCHANGED <<dir_state, dir_entries, image_path, choice, strength_line,
                   blur_strength, filter, modified, input_vars, run_vars>>

\* save fails: expect panics; the codec may have created the file already
SaveFails ==
    /\ pc = "returned"
    /\ files_written' \in {files_written, files_written \cup {modified}}
    /\ pc' = "panicked"
    /\ UNCHANGED <<dir_state, dir_entries, image_path, choice, strength_line,
                   blur_strength, filter, modified, console, input_vars,
                   run_vars>>

MainNext ==
    \/ FindImage
    \/ ReadChoice
    \/ ReadStrength
    \/ ReadFails
    \/ OpenImage
    \/ OpenFails
    \/ Alloc
    \/ \E t \in Threads : TakeRow(t)
    \/ \E t \in Threads : ProcessPixel(t)
    \/ Join
    \/ Save
    \/ SaveFails

MainSpec == MainInit /\ [][MainNext]_vars

\* ------------------------------------------- box blur of a uniform image
\* <<size, width, height, colour, threads>>: every small case, and one
\* 1 x 1 image under the kernel of strength 651
BlurCases ==
    {<<n, w, h, c, t>> : n \in OddSizes, w \in 1..MaxWidth, h \in 1..MaxHeight,
                         c \in Palette, t \in 1..MaxThreads}
        \cup {<<651, 1, 1, <<249, 0, 0>>, 1>>}

BlurInit ==
    \E b \in BlurCases :
        EngineInit(Uniform(b[2], b[3], b[4]), generate_box_blur_kernel(b[1]), b[5])

BlurSpec == BlurInit /\ [][Next]_vars

\* ============================================================== claims
Min(a, b) == IF a <= b THEN a ELSE b
Max(a, b) == IF a >= b THEN a ELSE b
Abs(a) == IF a < 0 THEN -a ELSE a
Channels == 1..3
ImageCoords == Coords(image.width, image.height)
Returned == pc = "returned"

\* the source coordinate of kernel cell k along an axis of length n
SourceCoord(p, k, side, n) == Min(Max(p + k - (side \div 2), 0), n - 1)

\* the product of kernel cell i (row-major, from 1) with the channel it weighs
Term(x, y, c, i) ==
    LET side == Len(kernel)
        kx == (i - 1) % side
        ky == (i - 1) \div side
        nx == SourceCoord(x, kx, side, image.width)
        ny == SourceCoord(y, ky, side, image.height)
    IN  FMul(kernel[ky + 1][kx + 1], FromInt(image.data[<<nx, ny>>][c]))

RECURSIVE RunningSum(_, _, _, _)
\* the running f32 sum of the first n terms
RunningSum(x, y, c, n) ==
    IF n = 0 THEN 0 ELSE FAdd(RunningSum(x, y, c, n - 1), Term(x, y, c, n))

\* S: the weighted sum of channel c over the neighbourhood of (x, y)
WeightedSum(x, y, c) == RunningSum(x, y, c, Len(kernel) * Len(kernel))

Saturate(r) == Min(Max(r, 0), 255)

\* C1: on an image of at least 1 x 1, no sample falls outside the image, and
\* every channel c of the returned image at (x, y) is
\* clamp(round(S), 0, 255), S being the running f32 sum over the k * k kernel
\* cells of kernel[ky][kx] * image[clamp(x + kx - k/2), clamp(y + ky - k/2)][c]
\* (each channel from its own channel only).
C1_WeightedSum ==
    /\ (image.width >= 1 /\ image.height >= 1) => pc # "panicked"
    /\ Returned =>
         \A p \in ImageCoords : \A c \in Channels :
             output.data[p][c] = Saturate(FRound(WeightedSum(p[1], p[2], c)))

C1_Witness ==
    /\ Returned
    /\ image.width >= 2 /\ image.height >= 2
    /\ kernel = RightKernel
    /\ \E p, q \in ImageCoords : image.data[p] # image.data[q]

RECURSIVE SequentialPass(_, _)
\* the output after one worker has stored the first n pixels in row-major
\* order
SequentialPass(out, n) ==
    IF n = 0 THEN out
    ELSE LET prev == SequentialPass(out, n - 1)
             x == (n - 1) % out.width
             y == (n - 1) \div out.width
             px == ConvolvePixel(SampleSource(image, prev), kernel, x, y)
         IN  [prev EXCEPT !.data[<<x, y>>] = <<px[1], px[2], px[3]>>]

SequentialResult ==
    LET d == AllocDims(image.width, image.height)
    IN  SequentialPass(Uniform(d[1], d[2], Black), d[1] * d[2])

\* C2: whatever the number of workers and the order in which they take and
\* process the rows, the returned image is the one a single worker going
\* through the rows in order returns.
C2_Deterministic == Returned => output = SequentialResult

C2_Witness ==
    /\ Returned
    /\ nthreads >= 2
    /\ reordered
    /\ \E p, q \in ImageCoords : image.data[p] # image.data[q]

\* C3: each row is handed to one task at most, two workers never hold the
\* same row, no output pixel is written twice, no task samples the output
\* buffer, and at the return every row was handed once and every pixel
\* written once.
C3_DisjointRows ==
    /\ \A y \in DOMAIN handed : handed[y] <= 1
    /\ \A t, u \in Threads :
           (t # u /\ task[t].row >= 0) => task[t].row # task[u].row
    /\ \A p \in DOMAIN nwrites : nwrites[p] <= 1
    /\ ~out_reads
    /\ Returned =>
         /\ DOMAIN nwrites = ImageCoords
         /\ \A p \in ImageCoords : nwrites[p] = 1
         /\ image.width >= 1 => \A y \in 0..(image.height - 1) : handed[y] = 1

C3_Witness ==
    /\ Returned
    /\ nthreads >= 2
    /\ image.width >= 2 /\ image.height >= 2

\* C4: the returned image has the width and the height of the input image.
C4_Dimensions ==
    Returned =>
        /\ output.width = image.width
        /\ output.height = image.height
        /\ DOMAIN output.data = ImageCoords

C4_Witness ==
    /\ Returned
    /\ image.width = 2 /\ image.height = 1
    /\ Len(kernel) > 2

RECURSIVE WeightSum(_, _, _, _, _)
\* the running f32 sum of the weights of cells from..to-1 (row-major) of a
\* kernel of the given side, on acc
WeightSum(k, side, from, to, acc) ==
    IF acc = acc /\ from >= to THEN acc
    ELSE IF to - from = 1
    THEN FAdd(acc, k[(from \div side) + 1][(from % side) + 1])
    ELSE LET mid == from + ((to - from) \div 2)
         IN  WeightSum(k, side, mid, to, WeightSum(k, side, from, mid, acc))

\* C5: a 1 x 1 image never has a sample taken outside it, and its returned
\* pixel is, per channel, the input channel times the sum of the kernel's
\* weights, rounded and clamped to [0, 255].
C5_SinglePixel ==
    (image.width = 1 /\ image.height = 1) =>
        /\ pc # "panicked"
        /\ Returned =>
             \A c \in Channels :
                 output.data[<<0, 0>>][c] =
                     Saturate(FRound(FMul(FromInt(image.data[<<0, 0>>][c]),
                         WeightSum(kernel, Len(kernel), 0, Len(kernel) * Len(kernel), 0))))

\* C6: a box blur of a uniform image returns, in every pixel and channel,
\* the input colour to within 1.
C6_Brightness ==
    Returned =>
        \A p \in ImageCoords : \A c \in Channels :
            Abs(output.data[p][c] - image.data[p][c]) <= 1

\* C7: every output channel is in [0, 255]; a weighted sum above 255 is
\* stored as 255 and one below 0 as 0; the all-10 kernel on a white image
\* returns 255 in every channel of every pixel.
C7_Saturation ==
    /\ \A p \in DOMAIN output.data : \A c \in Channels :
           output.data[p][c] \in 0..255
    /\ Returned =>
         \A p \in ImageCoords : \A c \in Channels :
             LET sum == WeightedSum(p[1], p[2], c)
             IN  /\ sum > FromInt(255) => output.data[p][c] = 255
                 /\ sum < 0 => output.data[p][c] = 0
    /\ (Returned /\ kernel = AllTenKernel
            /\ \A p \in ImageCoords : image.data[p] = White) =>
         \A p \in ImageCoords : output.data[p] = White

C7_Witness ==
    /\ Returned
    /\ kernel = AllTenKernel
    /\ image.width >= 2 /\ image.height >= 1
    /\ \A p \in ImageCoords : image.data[p] = White

\* C8: on an image of width 0 or height 0 the call does not panic, starts
\* no pass of the kernel loops, and holds an output of the same dimensions
\* and no pixel.
C8_ZeroSize ==
    (image.width = 0 \/ image.height = 0) =>
        /\ pc # "panicked"
        /\ samples = 0
        /\ \A t \in Threads : task[t].row = -1 \/ output.width = 0
        /\ pc \in {"running", "returned"} =>
             /\ output.width = image.width
             /\ output.height = image.height
             /\ output.data = <<>>

C8_Witness ==
    /\ Returned
    /\ image.width = 2 /\ image.height = 0
    /\ Len(kernel) = 3

ValidRun == image_path # NoPath /\ choice \in {<<"1">>, <<"2">>}

\* C9: a file is written only once an image was found and the choice read
\* is 1 or 2; without that, no image is loaded, no convolution is started,
\* no file is written, and the program exits on an error message.
C9_NoOutputWithoutInput ==
    /\ files_written # {} => ValidRun
    /\ ~ValidRun =>
         /\ image = NoImage
         /\ output = NoImage
         /\ samples = 0
         /\ files_written = {}
         /\ pc \in {"main", "choice", "exit", "panicked"}
    /\ (pc = "exit" /\ ~ValidRun) =>
         /\ console # <<>>
         /\ console[Len(console)] \in {ErrExiting, ErrInvalidChoice}

C9_Witness ==
    /\ pc = "exit"
    /\ image_path # NoPath
    /\ choice = <<"3">>

\* the text is no number to parse::<usize>
Unparsable(t) ==
    \/ t = <<>>
    \/ t = <<"+">>
    \/ \E i \in 1..Len(t) : t[i] \notin Digits /\ ~(i = 1 /\ t[i] = "+")

\* C10: on the blur path the kernel handed to apply_convolution is square
\* of odd side k >= 1; k is 5 for an unparsable strength, n + 1 for an even
\* n and n for an odd n; and the output path is
\* images/<stem>_blurred_<k>.jpg.
C10_OddKernel ==
    (filter = "blur" /\ kernel # <<>>) =>
        LET k == Len(kernel)
            t == Trim(strength_line)
            digits == SubSeq(modified,
                             Len(ImagesDir \o FileStem(image_path) \o BlurredInfix) + 1,
                             Len(modified) - Len(JpgSuffix))
        IN  /\ k >= 1 /\ k % 2 = 1
            /\ \A ky \in 1..k : Len(kernel[ky]) = k
            /\ Unparsable(t) => k = 5
            /\ \A n \in 0..MaxBlur :
                   t = FormatUsize(n) => k = (IF n % 2 = 0 THEN n + 1 ELSE n)
            /\ modified = BlurredPath(image_path, k)
            /\ \A i \in 1..Len(digits) : digits[i] \in Digits
            /\ DecimalValue(digits) = k

C10_Witness ==
    /\ pc = "exit"
    /\ filter = "blur"
    /\ strength_line = <<"4", "\n">>
    /\ files_written # {}
    /\ Len(kernel) = 5

====
